---- MODULE Spec2Model ----
(***************************************************************************)
(* Media capture controllers of the teacher-intro application:             *)
(*   - Teleprompter (src/components/Teleprompter.tsx): camera stream,       *)
(*     video recorder, artifact (object URL), download, elapsed timer, and  *)
(*     the scroll engine (frame loop, speed, position).                     *)
(*   - HybridRecorder + App (src/unnamed/part_000, src/App.tsx): microphone *)
(*     recorder, shared AppStatus, error message, transcription.            *)
(*   - the two codec negotiators.                                           *)
(* The browser (getUserMedia promises, MediaRecorder events, timers) is the *)
(* environment: every queued callback is a separate step of the event loop. *)
(***************************************************************************)
EXTENDS Integers, Sequences, FiniteSets, TLC

\* ---------------------------------------------------------------- bounds
MaxAcquire == 2      \* getUserMedia calls issued in one run
MaxRecorders == 2    \* MediaRecorder objects constructed in one run
MaxChunks == 2       \* non-empty chunks one recorder delivers
MaxTime == 2         \* cap of the elapsed-seconds counter
MaxClock == 3        \* last animation-frame timestamp, in tenths of a second
ScrollMax == 20      \* scrollHeight - clientHeight of the script panel

\* refs start as null (useRef(null)); ids of streams, recorders, blobs are 1..n
NULL == 0

\* ------------------------------------------------------- codec negotiation
VideoTypes ==
  << "video/mp4;codecs=avc1", "video/mp4", "video/webm;codecs=vp9,opus",
     "video/webm", "video/quicktime" >>

AudioTypes ==
  << "audio/mp4", "audio/webm;codecs=opus", "audio/aac", "audio/wav" >>

AllTypes == { VideoTypes[i] : i \in 1..Len(VideoTypes) }
              \cup { AudioTypes[i] : i \in 1..Len(AudioTypes) }

\* the loop without its early return: the last supported entry wins
FirstSupported_Last(types, i, sup, otherwise) ==
  LET idx == { j \in i..Len(types) : types[j] \in sup }
  IN IF idx = {} THEN otherwise
     ELSE types[CHOOSE j \in idx : \A k \in idx : k <= j]

\* for (const type of types) if (MediaRecorder.isTypeSupported(type)) return type;
\* falls through to the value after the loop
RECURSIVE FirstSupported(_, _, _, _)
FirstSupported(types, i, sup, otherwise) ==
  IF i > Len(types) THEN otherwise
  ELSE IF types[i] \in sup THEN types[i]
  ELSE FirstSupported(types, i + 1, sup, otherwise)

getSupportedMimeType(sup) == FirstSupported(VideoTypes, 1, sup, "")

getSupportedAudioMimeType(sup) == FirstSupported(AudioTypes, 1, sup, "audio/wav")

\* capability sets the recording models run under (MediaRecorder.isTypeSupported)
Capabilities ==
  { {},
    {"video/webm", "audio/webm;codecs=opus"},
    {"video/mp4", "video/webm", "audio/mp4"} }

\* ------------------------------------------------------------------ state
VARIABLES
  \* browser / environment
  supported,        \* set of mime types MediaRecorder.isTypeSupported accepts
  streams,          \* Seq of [live, owner]: every MediaStream getUserMedia returned
  recorders,        \* Seq of [owner, stream, mimeType, state, stopTask, delivered]
  pending,          \* pending getUserMedia promises, per caller
  gumCalls,         \* number of getUserMedia calls issued
  blobs,            \* Seq of [content, type, rec]: every Blob built in an onstop
  timers,           \* active setInterval ids
  videoChoices,     \* results of the getSupportedMimeType calls made so far
  audioChoices,     \* results of the getSupportedAudioMimeType calls made so far
  scrollTop,        \* scrollTop of the script panel (containerRef.current)
  alertShown,       \* text of the last window.alert
  download,         \* the last download triggered: [href, name], or NoDownload
  \* Teleprompter
  mounted, isScrolling, showCamera, isRecording, recordedVideoUrl,
  recordingTime, playbackMode, permissionDenied,
  streamRef, mediaRecorderRef, chunksRef, timerIntervalRef,
  speed, scrollPosRef, lastTimeRef,
  leg,              \* the stretch of scrolling under way: [kind, time, pos, shown, idle]
  \* App
  status, errorMessage, bio, script,
  \* HybridRecorder
  permissionState, hrMediaRecorderRef, hrChunksRef,
  \* browser / services seen by App and HybridRecorder
  context,          \* "ok", "insecure" (window.isSecureContext false), "nomedia"
  query,            \* navigator.permissions.query: "unsupported", "pending", "subscribed", "failed"
  readers,          \* blobs a FileReader is still reading
  handoffs,         \* Seq of [blob, mimeType]: every onAudioReady call
  pendingTranscribe, pendingGenerate   \* service promises not yet settled

negVars == << videoChoices, audioChoices >>

envVars == << supported, streams, recorders, pending, gumCalls, blobs, timers, negVars >>

tpVars == << mounted, isScrolling, showCamera, isRecording, recordedVideoUrl,
             recordingTime, playbackMode, permissionDenied,
             streamRef, mediaRecorderRef, chunksRef, timerIntervalRef >>

appVars == << status, errorMessage, bio, script >>

hrVars == << permissionState, hrMediaRecorderRef, hrChunksRef >>

svcVars == << context, query, readers, handoffs,
              pendingTranscribe, pendingGenerate >>

audioVars == << appVars, hrVars, svcVars >>

scrollVars == << speed, scrollPosRef, lastTimeRef, scrollTop, leg >>

pageVars == << alertShown, download >>

vars == << envVars, tpVars, audioVars, scrollVars, pageVars >>

TpCallers == {"toggle", "record"}

Callers == TpCallers \cup {"live"}

DenialNames == {"NotAllowedError", "PermissionDeniedError"}

NotFoundNames == {"NotFoundError", "DevicesNotFoundError"}

\* rejections of getUserMedia: DOMException name and message
MediaErrors ==
  { [name |-> "NotAllowedError", message |-> << "Permission denied" >>],
    [name |-> "PermissionDeniedError", message |-> << "Permission denied" >>],
    [name |-> "NotFoundError", message |-> << "Requested device not found" >>],
    [name |-> "DevicesNotFoundError", message |-> << "Requested device not found" >>],
    [name |-> "NotReadableError", message |-> << "Could not start audio source" >>],
    [name |-> "AbortError", message |-> << >>] }

\* ---------------------------------------------------------------- helpers
NewStream(owner) == [live |-> TRUE, owner |-> owner]

NewRecorder(owner, s, mime) ==
  [owner |-> owner, stream |-> s, mimeType |-> mime,
   state |-> "recording", stopTask |-> FALSE, delivered |-> 0]

\* recorder.state === 'recording'
IsRecordingState(r) == r # NULL /\ recorders[r].state = "recording"

\* MediaRecorder.stop(): inactive at once; one task is queued that fires
\* dataavailable with the data gathered so far and then stop
StopRecorder(recs, r) == [recs EXCEPT ![r].state = "inactive", ![r].stopTask = TRUE]

\* ondataavailable of both components: if (e.data.size > 0) chunksRef.current.push(e.data)
\* the chunk is named by its recorder and its place in that recorder's deliveries
PushChunk(buffer, r, empty) ==
  IF empty THEN buffer ELSE Append(buffer, << r, recorders[r].delivered + 1 >>)

\* the recorder after one more dataavailable event
AfterDelivery(r, empty, stopped) ==
  [recorders EXCEPT ![r].delivered = IF empty THEN @ ELSE @ + 1,
                    ![r].stopTask = IF stopped THEN FALSE ELSE @]

\* track.stop() on every track of stream s
StopTracks(strs, s) == [strs EXCEPT ![s].live = FALSE]

LiveStreams(owner) ==
  { s \in 1..Len(streams) : streams[s].live /\ streams[s].owner = owner }

RecordingRecorders(owner) ==
  { r \in 1..Len(recorders) :
      recorders[r].owner = owner /\ recorders[r].state = "recording" }

Issued == Len(recorders) + pending["record"] + pending["live"]

\* ------------------------------------------------------------------ Init
\* errorMessage null (useState<string | null>(null)); a message is a sequence of
\* text pieces, so that String.includes is a search and a template a concatenation
NoMessage == << >>

\* a || b on strings
OrElse(a, b) == IF a = << >> THEN b ELSE a

\* no download was triggered yet
NoDownload == [href |-> NULL, name |-> << >>]

\* no stretch of scrolling is being followed
NoLeg == [kind |-> "none", time |-> NULL, pos |-> 0, shown |-> TRUE, idle |-> FALSE]

PermissionStates == {"prompt", "granted", "denied"}

InitBrowser ==
  /\ streams = << >>
  /\ recorders = << >>
  /\ pending = [c \in Callers |-> 0]
  /\ gumCalls = 0
  /\ blobs = << >>
  /\ timers = {}
  /\ videoChoices = << >>
  /\ audioChoices = << >>
  /\ readers = {}
  /\ handoffs = << >>
  /\ pendingTranscribe = 0
  /\ pendingGenerate = 0
  /\ scrollTop = 0
  /\ alertShown = NoMessage
  /\ download = NoDownload

\* Teleprompter's useState / useRef initial values
InitTeleprompter ==
  /\ isScrolling = FALSE
  /\ showCamera = FALSE
  /\ isRecording = FALSE
  /\ recordedVideoUrl = NULL
  /\ recordingTime = 0
  /\ playbackMode = FALSE
  /\ permissionDenied = FALSE
  /\ streamRef = NULL
  /\ mediaRecorderRef = NULL
  /\ chunksRef = << >>
  /\ timerIntervalRef = NULL
  /\ speed = 40
  /\ scrollPosRef = 0
  /\ lastTimeRef = NULL
  /\ leg = NoLeg

\* App's and HybridRecorder's useState / useRef initial values
InitApp ==
  /\ status = "IDLE"
  /\ errorMessage = NoMessage
  /\ bio = << >>
  /\ script = << >>
  /\ permissionState = "prompt"
  /\ hrMediaRecorderRef = NULL
  /\ hrChunksRef = << >>

\* the Teleprompter on its own, just mounted (App: showTeleprompter true); the
\* page is served securely, no permission query
InitT ==
  /\ supported \in Capabilities
  /\ InitBrowser /\ InitTeleprompter /\ InitApp
  /\ mounted = TRUE
  /\ context = "ok"
  /\ query = "unsupported"

\* App with HybridRecorder: the mount effect has issued the permission query
\* when the browser has a Permissions API
InitA ==
  /\ supported \in Capabilities
  /\ InitBrowser /\ InitTeleprompter /\ InitApp
  /\ mounted = FALSE
  /\ context \in {"ok", "insecure", "nomedia"}
  /\ query \in {"unsupported", "pending"}

\* ----------------------------------------------------------- Teleprompter
\* startCamera up to its await: clears the denied flag, then either reuses the
\* held stream or issues getUserMedia (the promise is resolved by a later step)
\* startCamera without the "if (streamRef.current)" reuse: getUserMedia again
startCameraReuse_Reacquire ==
  /\ streamRef # NULL
  /\ gumCalls < MaxAcquire
  /\ permissionDenied' = FALSE
  /\ gumCalls' = gumCalls + 1
  /\ pending' = [pending EXCEPT !["toggle"] = @ + 1]
  /\ UNCHANGED << supported, negVars, streams, recorders, blobs, timers,
                  mounted, isScrolling, showCamera, isRecording, recordedVideoUrl,
                  recordingTime, playbackMode, streamRef, mediaRecorderRef,
                  chunksRef, timerIntervalRef >>

startCameraReuse ==
  /\ streamRef # NULL
  /\ permissionDenied' = FALSE
  /\ showCamera' = TRUE
  /\ UNCHANGED << envVars, mounted, isScrolling, isRecording, recordedVideoUrl,
                  recordingTime, playbackMode, streamRef, mediaRecorderRef,
                  chunksRef, timerIntervalRef >>

startCameraAcquire(caller) ==
  /\ streamRef = NULL
  /\ gumCalls < MaxAcquire
  /\ permissionDenied' = FALSE
  /\ gumCalls' = gumCalls + 1
  /\ pending' = [pending EXCEPT ![caller] = @ + 1]
  /\ UNCHANGED << supported, negVars, streams, recorders, blobs, timers,
                  mounted, isScrolling, showCamera, isRecording, recordedVideoUrl,
                  recordingTime, playbackMode, streamRef, mediaRecorderRef,
                  chunksRef, timerIntervalRef >>

stopCameraStreams ==
  /\ streams' = IF streamRef # NULL THEN StopTracks(streams, streamRef) ELSE streams
  /\ streamRef' = NULL
  /\ showCamera' = FALSE
  /\ UNCHANGED << supported, negVars, recorders, pending, gumCalls, blobs, timers,
                  mounted, isScrolling, isRecording, recordedVideoUrl,
                  recordingTime, playbackMode, permissionDenied,
                  mediaRecorderRef, chunksRef, timerIntervalRef >>

\* a Hide Camera that releases the stream also while recording
toggleCameraVisibility_AlwaysRelease ==
  /\ UNCHANGED << audioVars, scrollVars, pageVars >>
  /\ mounted
  /\ IF ~showCamera
       THEN startCameraReuse \/ startCameraAcquire("toggle")
       ELSE stopCameraStreams

\* Show/Hide Camera button
toggleCameraVisibility ==
  /\ UNCHANGED << audioVars, scrollVars, pageVars >>
  /\ mounted
  /\ IF ~showCamera
       THEN startCameraReuse \/ startCameraAcquire("toggle")
       ELSE IF isRecording
         THEN /\ showCamera' = FALSE
              /\ UNCHANGED << envVars, mounted, isScrolling, isRecording,
                              recordedVideoUrl, recordingTime, playbackMode,
                              permissionDenied, streamRef, mediaRecorderRef,
                              chunksRef, timerIntervalRef >>
         ELSE stopCameraStreams

\* scrollTop after setPlaybackMode(false): leaving the review mounts a new
\* script panel, which starts at the top
PanelShown == IF playbackMode THEN 0 ELSE scrollTop

\* startRecording without the "if (!mimeType)" return
recordWith_NoCodecCheck(s) ==
  /\ recordedVideoUrl' = NULL
  /\ playbackMode' = FALSE
  /\ chunksRef' = << >>
  /\ recorders' = Append(recorders, NewRecorder("T", s, getSupportedMimeType(supported)))
  /\ mediaRecorderRef' = Len(recorders) + 1
  /\ isRecording' = TRUE
  /\ recordingTime' = 0
  /\ isScrolling' = TRUE
  /\ scrollPosRef' = 0
  /\ scrollTop' = 0
  /\ leg' = NoLeg
  /\ timerIntervalRef' = Len(recorders) + 1
  /\ timers' = timers \cup {Len(recorders) + 1}
  /\ UNCHANGED alertShown

\* startRecording from "setRecordedVideoUrl(null)" on, with the stream in hand.
\* Constrains the artifact, the chunk buffer, the recorder, the flags, the timer,
\* the scroll position and the alert.
recordWith(s) ==
  LET mimeType == getSupportedMimeType(supported)
      r == Len(recorders) + 1
  IN /\ recordedVideoUrl' = NULL
     /\ playbackMode' = FALSE
     /\ chunksRef' = << >>
     /\ IF mimeType = ""
          THEN /\ alertShown' = << "Recording not supported." >>
               /\ scrollTop' = PanelShown
               /\ UNCHANGED << recorders, mediaRecorderRef, isRecording, recordingTime,
                               isScrolling, timerIntervalRef, timers,
                               scrollPosRef, leg >>
          ELSE /\ recorders' = Append(recorders, NewRecorder("T", s, mimeType))
               /\ mediaRecorderRef' = r
               /\ isRecording' = TRUE
               /\ recordingTime' = 0
               /\ isScrolling' = TRUE
               /\ scrollPosRef' = 0
               /\ scrollTop' = 0
               /\ leg' = NoLeg
               /\ timerIntervalRef' = r
               /\ timers' = timers \cup {r}
               /\ UNCHANGED alertShown

\* START RECORDING button (shown while not recording, outside playback and the
\* permission overlay)
startRecording ==
  /\ UNCHANGED << audioVars, speed, lastTimeRef, download >>
  /\ mounted /\ ~isRecording /\ ~playbackMode /\ ~permissionDenied
  /\ Issued < MaxRecorders
  /\ IF streamRef # NULL
       THEN /\ recordWith(streamRef)
            /\ UNCHANGED << supported, negVars, streams, pending, gumCalls, blobs, mounted,
                            showCamera, permissionDenied, streamRef >>
       ELSE /\ startCameraAcquire("record")
            /\ UNCHANGED << scrollPosRef, scrollTop, leg, alertShown >>

\* getUserMedia resolves for a startCamera call; the caller's continuation runs
getUserMediaResolved(caller) ==
  /\ UNCHANGED << audioVars, speed, lastTimeRef, download >>
  /\ pending[caller] > 0
  /\ pending' = [pending EXCEPT ![caller] = @ - 1]
  /\ LET s == Len(streams) + 1
     IN /\ streams' = Append(streams, NewStream("T"))
        /\ streamRef' = s
        /\ showCamera' = TRUE
        /\ IF caller = "record"
             THEN recordWith(s)
             ELSE /\ playbackMode' = FALSE
                  /\ scrollTop' = PanelShown
                  /\ UNCHANGED << recorders, mediaRecorderRef, isRecording,
                                  recordingTime, isScrolling, timerIntervalRef,
                                  timers, recordedVideoUrl, chunksRef,
                                  scrollPosRef, leg, alertShown >>
  /\ UNCHANGED << supported, negVars, gumCalls, blobs, mounted, permissionDenied >>

\* getUserMedia rejects: startCamera's catch; startRecording returns on null
getUserMediaRejected(caller, err) ==
  /\ UNCHANGED << audioVars, scrollVars, download >>
  /\ pending[caller] > 0
  /\ pending' = [pending EXCEPT ![caller] = @ - 1]
  /\ permissionDenied' = IF err.name \in DenialNames THEN TRUE ELSE permissionDenied
  /\ alertShown' = IF err.name \in DenialNames THEN alertShown
                   ELSE << "Camera Error: " >>
                          \o OrElse(err.message, << "Failed to start landscape camera." >>)
  /\ UNCHANGED << supported, negVars, streams, recorders, gumCalls, blobs, timers,
                  mounted, isScrolling, showCamera, isRecording, recordedVideoUrl,
                  recordingTime, playbackMode, streamRef, mediaRecorderRef,
                  chunksRef, timerIntervalRef >>

\* a STOP that also rewinds the scroll position
stopRecording_Rewind ==
  /\ UNCHANGED << audioVars, speed, lastTimeRef, pageVars >>
  /\ scrollPosRef' = 0
  /\ scrollTop' = 0
  /\ leg' = NoLeg
  /\ mounted /\ isRecording /\ ~playbackMode /\ ~permissionDenied
  /\ recorders' = IF IsRecordingState(mediaRecorderRef)
                    THEN StopRecorder(recorders, mediaRecorderRef)
                    ELSE recorders
  /\ isRecording' = FALSE
  /\ isScrolling' = FALSE
  /\ timers' = IF timerIntervalRef # NULL THEN timers \ {timerIntervalRef} ELSE timers
  /\ UNCHANGED << supported, negVars, streams, pending, gumCalls, blobs,
                  mounted, showCamera, recordedVideoUrl, recordingTime, playbackMode,
                  permissionDenied, streamRef, mediaRecorderRef, chunksRef,
                  timerIntervalRef >>

\* STOP button (shown while isRecording)
stopRecording ==
  /\ UNCHANGED << audioVars, speed, scrollPosRef, lastTimeRef, scrollTop, pageVars >>
  /\ leg' = NoLeg
  /\ mounted /\ isRecording /\ ~playbackMode /\ ~permissionDenied
  /\ recorders' = IF IsRecordingState(mediaRecorderRef)
                    THEN StopRecorder(recorders, mediaRecorderRef)
                    ELSE recorders
  /\ isRecording' = FALSE
  /\ isScrolling' = FALSE
  /\ timers' = IF timerIntervalRef # NULL THEN timers \ {timerIntervalRef} ELSE timers
  /\ UNCHANGED << supported, negVars, streams, pending, gumCalls, blobs,
                  mounted, showCamera, recordedVideoUrl, recordingTime, playbackMode,
                  permissionDenied, streamRef, mediaRecorderRef, chunksRef,
                  timerIntervalRef >>

\* recorder.ondataavailable of a Teleprompter recorder while it records
tpDataAvailable(r, empty) ==
  /\ UNCHANGED << audioVars, scrollVars, pageVars >>
  /\ recorders[r].owner = "T"
  /\ recorders[r].state = "recording"
  /\ ~empty => recorders[r].delivered < MaxChunks
  /\ recorders' = AfterDelivery(r, empty, FALSE)
  /\ chunksRef' = PushChunk(chunksRef, r, empty)
  /\ UNCHANGED << supported, negVars, streams, pending, gumCalls, blobs, timers,
                  mounted, isScrolling, showCamera, isRecording, recordedVideoUrl,
                  recordingTime, playbackMode, permissionDenied, streamRef,
                  mediaRecorderRef, timerIntervalRef >>

\* the task MediaRecorder.stop() queued, for a Teleprompter recorder: the last
\* dataavailable, then onstop: Blob of the buffer, object URL, setRecordedVideoUrl
tpStopTask(r, empty) ==
  /\ UNCHANGED << audioVars, scrollVars, pageVars >>
  /\ recorders[r].owner = "T"
  /\ recorders[r].stopTask
  /\ ~empty => recorders[r].delivered < MaxChunks
  /\ recorders' = AfterDelivery(r, empty, TRUE)
  /\ chunksRef' = PushChunk(chunksRef, r, empty)
  /\ blobs' = Append(blobs, [content |-> chunksRef', type |-> recorders[r].mimeType,
                             rec |-> r])
  /\ recordedVideoUrl' = Len(blobs) + 1
  /\ UNCHANGED << supported, negVars, streams, pending, gumCalls, timers,
                  mounted, isScrolling, showCamera, isRecording,
                  recordingTime, playbackMode, permissionDenied, streamRef,
                  mediaRecorderRef, timerIntervalRef >>

\* setInterval callback: setRecordingTime(prev => prev + 1); React drops the
\* update once the component is unmounted
timerTick(t) ==
  /\ UNCHANGED << audioVars, scrollVars, pageVars >>
  /\ t \in timers
  /\ recordingTime < MaxTime
  /\ recordingTime' = IF mounted THEN recordingTime + 1 ELSE recordingTime
  /\ UNCHANGED << envVars, mounted, isScrolling, showCamera, isRecording,
                  recordedVideoUrl, playbackMode, permissionDenied, streamRef,
                  mediaRecorderRef, chunksRef, timerIntervalRef >>

\* a play button that rewinds the position when it resumes
toggleScroll_Rewind ==
  /\ UNCHANGED << audioVars, speed, lastTimeRef, scrollTop, pageVars >>
  /\ mounted /\ ~playbackMode /\ ~permissionDenied
  /\ isScrolling' = ~isScrolling
  /\ scrollPosRef' = IF isScrolling THEN scrollPosRef ELSE 0
  /\ leg' = IF isScrolling
              THEN [kind |-> "paused", time |-> lastTimeRef, pos |-> scrollPosRef,
                    shown |-> TRUE, idle |-> FALSE]
              ELSE IF leg.kind = "paused" THEN [leg EXCEPT !.kind = "resumed"]
                   ELSE NoLeg
  /\ UNCHANGED << envVars, mounted, showCamera, isRecording, recordedVideoUrl,
                  recordingTime, playbackMode, permissionDenied, streamRef,
                  mediaRecorderRef, chunksRef, timerIntervalRef >>

\* play/pause button of the scroll
toggleScroll ==
  /\ UNCHANGED << audioVars, speed, scrollPosRef, lastTimeRef, scrollTop, pageVars >>
  /\ mounted /\ ~playbackMode /\ ~permissionDenied
  /\ isScrolling' = ~isScrolling
  /\ leg' = IF isScrolling
              THEN [kind |-> "paused", time |-> lastTimeRef, pos |-> scrollPosRef,
                    shown |-> TRUE, idle |-> FALSE]
              ELSE IF leg.kind = "paused" THEN [leg EXCEPT !.kind = "resumed"]
                   ELSE NoLeg
  /\ UNCHANGED << envVars, mounted, showCamera, isRecording, recordedVideoUrl,
                  recordingTime, playbackMode, permissionDenied, streamRef,
                  mediaRecorderRef, chunksRef, timerIntervalRef >>

\* Review Draft / Back to Script button; the script panel is rendered only
\* outside the review, so every switch ends with a panel at the top or none
togglePlayback ==
  /\ UNCHANGED << audioVars, speed, scrollPosRef, lastTimeRef, leg, pageVars >>
  /\ scrollTop' = 0
  /\ mounted /\ recordedVideoUrl # NULL
  /\ playbackMode' = ~playbackMode
  /\ UNCHANGED << envVars, mounted, isScrolling, showCamera, isRecording,
                  recordedVideoUrl, recordingTime, permissionDenied, streamRef,
                  mediaRecorderRef, chunksRef, timerIntervalRef >>

\* DISCARD button
discard ==
  /\ UNCHANGED << audioVars, scrollVars, pageVars >>
  /\ mounted /\ recordedVideoUrl # NULL /\ ~isRecording
  /\ ~playbackMode /\ ~permissionDenied
  /\ recordedVideoUrl' = NULL
  /\ UNCHANGED << envVars, mounted, isScrolling, showCamera, isRecording,
                  recordingTime, playbackMode, permissionDenied, streamRef,
                  mediaRecorderRef, chunksRef, timerIntervalRef >>

\* Exit button: App unmounts the Teleprompter; the effect cleanup only cancels
\* the animation frame
onClose ==
  /\ UNCHANGED << audioVars, scrollVars, pageVars >>
  /\ mounted
  /\ mounted' = FALSE
  /\ UNCHANGED << envVars, isScrolling, showCamera, isRecording, recordedVideoUrl,
                  recordingTime, playbackMode, permissionDenied, streamRef,
                  mediaRecorderRef, chunksRef, timerIntervalRef >>

\* Math.max / Math.min
Max(a, b) == IF a >= b THEN a ELSE b

Min(a, b) == IF a <= b THEN a ELSE b

\* the decrease control with a floor of 0 in place of 10
speedDown_Floor0 ==
  /\ UNCHANGED << audioVars, envVars, tpVars, pageVars, scrollPosRef, lastTimeRef,
                  scrollTop >>
  /\ mounted /\ ~playbackMode
  /\ speed' = Max(0, speed - 10)
  /\ leg' = IF leg.kind = "run" /\ speed' # speed THEN NoLeg ELSE leg

\* speed controls (shown outside the review): setSpeed(prev => Math.max(10, prev - 10))
speedDown ==
  /\ UNCHANGED << audioVars, envVars, tpVars, pageVars, scrollPosRef, lastTimeRef,
                  scrollTop >>
  /\ mounted /\ ~playbackMode
  /\ speed' = Max(10, speed - 10)
  /\ leg' = IF leg.kind = "run" /\ speed' # speed THEN NoLeg ELSE leg

\* setSpeed(prev => Math.min(200, prev + 10))
speedUp ==
  /\ UNCHANGED << audioVars, envVars, tpVars, pageVars, scrollPosRef, lastTimeRef,
                  scrollTop >>
  /\ mounted /\ ~playbackMode
  /\ speed' = Min(200, speed + 10)
  /\ leg' = IF leg.kind = "run" /\ speed' # speed THEN NoLeg ELSE leg

\* speed * deltaTime, deltaTime = (time - lastTimeRef.current) / 1000 seconds;
\* timestamps are in tenths of a second and speeds are multiples of 10, so the
\* quotient is exact
moveBy(time) == (speed * (time - lastTimeRef)) \div 10

\* the stretch followed after a frame: a frame that leaves the engine running
\* opens a stretch or continues the open one, noting whether the panel was
\* there; a frame that finds the engine paused is noted in the pause (idle)
LegAfterFrame(time, pos) ==
  IF ~isScrolling
    THEN IF leg.kind = "paused" THEN [leg EXCEPT !.idle = TRUE] ELSE NoLeg
  ELSE IF leg.kind = "run" THEN [leg EXCEPT !.shown = @ /\ ~playbackMode]
  ELSE [kind |-> "run", time |-> time, pos |-> pos, shown |-> TRUE, idle |-> FALSE]

\* the frame callback that measures every frame from the first timestamp
animateScroll_FromFirst(time) ==
  /\ UNCHANGED << audioVars, envVars, tpVars, pageVars, speed >>
  /\ mounted
  /\ time > lastTimeRef /\ time <= MaxClock
  /\ IF lastTimeRef # NULL /\ isScrolling /\ ~playbackMode
       THEN /\ scrollPosRef' = scrollPosRef + moveBy(time)
            /\ scrollTop' = Min(ScrollMax, scrollPosRef')
       ELSE UNCHANGED << scrollPosRef, scrollTop >>
  /\ lastTimeRef' = IF lastTimeRef # NULL THEN lastTimeRef ELSE time
  /\ leg' = LegAfterFrame(time, scrollPosRef')

\* a frame callback that notes the timestamp only while the scroll is running
animateScroll_ClockStopsWhilePaused(time) ==
  /\ UNCHANGED << audioVars, envVars, tpVars, pageVars, speed >>
  /\ mounted
  /\ time > lastTimeRef /\ time <= MaxClock
  /\ IF lastTimeRef # NULL /\ isScrolling /\ ~playbackMode
       THEN /\ scrollPosRef' = scrollPosRef + moveBy(time)
            /\ scrollTop' = Min(ScrollMax, scrollPosRef')
       ELSE UNCHANGED << scrollPosRef, scrollTop >>
  /\ lastTimeRef' = IF isScrolling \/ lastTimeRef = NULL THEN time ELSE lastTimeRef
  /\ leg' = LegAfterFrame(time, scrollPosRef')

\* animateScroll, the requestAnimationFrame callback; the effect on
\* [isScrolling, speed] re-arms it with the committed values, and the cleanup
\* cancels it on unmount. containerRef.current is the script panel, which is
\* rendered only outside the review.
animateScroll(time) ==
  /\ UNCHANGED << audioVars, envVars, tpVars, pageVars, speed >>
  /\ mounted
  /\ time > lastTimeRef /\ time <= MaxClock
  /\ IF lastTimeRef # NULL /\ isScrolling /\ ~playbackMode
       THEN /\ scrollPosRef' = scrollPosRef + moveBy(time)
            /\ scrollTop' = Min(ScrollMax, scrollPosRef')
       ELSE UNCHANGED << scrollPosRef, scrollTop >>
  /\ lastTimeRef' = time
  /\ leg' = LegAfterFrame(time, scrollPosRef')

\* offsets the user scrolls the panel to
ManualOffsets == {0, 12}

\* an onScroll that copies the offset whether or not the scroll is running
onScroll_Always(offset) ==
  /\ UNCHANGED << audioVars, envVars, tpVars, pageVars, speed, lastTimeRef >>
  /\ mounted /\ ~playbackMode
  /\ scrollTop' = offset
  /\ scrollPosRef' = offset
  /\ leg' = IF ~isScrolling THEN NoLeg ELSE leg

\* onScroll of the script panel after the user moved it to offset
onScroll(offset) ==
  /\ UNCHANGED << audioVars, envVars, tpVars, pageVars, speed, lastTimeRef >>
  /\ mounted /\ ~playbackMode
  /\ scrollTop' = offset
  /\ scrollPosRef' = IF ~isScrolling THEN offset ELSE scrollPosRef
  /\ leg' = IF ~isScrolling THEN NoLeg ELSE leg

\* a mime type as the pieces String.includes searches
MimePieces(type) ==
  CASE type = "video/mp4;codecs=avc1" -> << "video/", "mp4", ";codecs=avc1" >>
    [] type = "video/mp4" -> << "video/", "mp4" >>
    [] type = "video/webm;codecs=vp9,opus" -> << "video/", "webm", ";codecs=vp9,opus" >>
    [] type = "video/webm" -> << "video/", "webm" >>
    [] type = "video/quicktime" -> << "video/", "quicktime" >>
    [] OTHER -> << >>

\* Date.now(), as the digits the template prints
Timestamps == {"1762077600000", "1762077661234"}

\* SAVE VIDEO button
downloadVideo(now) ==
  /\ UNCHANGED << audioVars, envVars, tpVars, scrollVars, alertShown >>
  /\ mounted /\ recordedVideoUrl # NULL /\ ~isRecording
  /\ ~playbackMode /\ ~permissionDenied
  /\ LET extension ==
           IF \E i \in 1..Len(MimePieces(getSupportedMimeType(supported))) :
                MimePieces(getSupportedMimeType(supported))[i] = "mp4"
             THEN "mp4" ELSE "webm"
     IN download' = [href |-> recordedVideoUrl,
                     name |-> << "teacher-intro-landscape-", now, ".", extension >>]

NextT ==
  \/ toggleCameraVisibility
  \/ startRecording
  \/ stopRecording
  \/ \E c \in TpCallers : getUserMediaResolved(c)
  \/ \E c \in TpCallers, err \in MediaErrors : getUserMediaRejected(c, err)
  \/ \E r \in 1..Len(recorders), e \in BOOLEAN : tpDataAvailable(r, e)
  \/ \E r \in 1..Len(recorders), e \in BOOLEAN : tpStopTask(r, e)
  \/ \E t \in timers : timerTick(t)
  \/ toggleScroll
  \/ togglePlayback
  \/ discard
  \/ onClose

SpecT == InitT /\ [][NextT]_vars

\* the scroll engine on its own: the frame loop, the speed and play controls
\* and manual scrolling
NextE ==
  \/ \E time \in 1..MaxClock : animateScroll(time)
  \/ speedDown
  \/ speedUp
  \/ toggleScroll
  \/ \E offset \in ManualOffsets : onScroll(offset)

SpecE == InitT /\ [][NextE]_vars

\* the scroll engine at its initial speed with the handlers that drive it from
\* outside: recording start and stop, and the review of a finished recording
NextS ==
  \/ \E time \in 1..MaxClock : animateScroll(time)
  \/ toggleScroll
  \/ \E offset \in ManualOffsets : onScroll(offset)
  \/ startRecording
  \/ getUserMediaResolved("record")
  \/ stopRecording
  \/ \E r \in 1..Len(recorders), e \in BOOLEAN : tpStopTask(r, e)
  \/ togglePlayback

SpecS == InitT /\ [][NextS]_vars

\* runtimes that support exactly one entry of the video preference list
SingleCodec == { {VideoTypes[i]} : i \in 1..Len(VideoTypes) }

InitD ==
  /\ supported \in SingleCodec
  /\ InitBrowser /\ InitTeleprompter /\ InitApp
  /\ mounted = TRUE
  /\ context = "ok"
  /\ query = "unsupported"

\* the life of the video artifact: recorded, finalized, reviewed, saved, discarded
NextD ==
  \/ startRecording
  \/ getUserMediaResolved("record")
  \/ stopRecording
  \/ \E r \in 1..Len(recorders), e \in BOOLEAN : tpDataAvailable(r, e)
  \/ \E r \in 1..Len(recorders), e \in BOOLEAN : tpStopTask(r, e)
  \/ togglePlayback
  \/ \E now \in Timestamps : downloadVideo(now)
  \/ discard

SpecD == InitD /\ [][NextD]_vars

\* the event loop runs every task a MediaRecorder.stop() queued
SpecDFair ==
  /\ SpecD
  /\ \A r \in 1..MaxRecorders :
       WF_vars(r <= Len(recorders) /\ \E e \in BOOLEAN : tpStopTask(r, e))

\* ------------------------------------------------ App and HybridRecorder
MaxGenerate == 1     \* generateTeacherScript promises pending at once

MsgInsecure == << "Recording requires a secure (HTTPS) connection." >>

MsgUnsupported ==
  << "Audio recording is not supported by your browser configuration." >>

MsgPermissionDenied ==
  << "PERMISSION_DENIED", ": Access blocked. Please check your browser's site settings." >>

MsgNoMicrophone == << "No microphone found." >>

MsgUnknownMic == << "Unknown microphone error." >>

\* messages of the errors the text/speech service (or getClient) throws
ServiceErrors ==
  { << "API Key not found. Please ensure VITE_GOOGLE_AI_API_KEY is configured in Vercel." >>,
    << "got status: 403 ", "PERMISSION_DENIED", " API key not valid" >> }

\* response.text?.trim() || ""
ServiceTexts == { << >>, << "text" >> }

\* message.includes(piece)
Includes(message, piece) == \E i \in 1..Len(message) : message[i] = piece

\* bio.trim() is not empty: some piece is not white space
HasText(s) == \E i \in 1..Len(s) : s[i] # "\n\n"

\* geminiService.ts: throw new Error(`Transcription failed: ${error.message}`)
TranscriptionFailed(message) == << "Transcription failed: " >> \o message

\* geminiService.ts: throw new Error(`Script generation failed: ${error.message}`)
GenerationFailed(message) == << "Script generation failed: " >> \o message

\* the toast of App: errorMessage?.includes('PERMISSION_DENIED') picks the
\* blocked-microphone guidance, anything else shows the message itself
PermissionRelated == status = "ERROR" /\ Includes(errorMessage, "PERMISSION_DENIED")

MsgBlockedGuidance == << "Your browser has blocked the microphone." >>

ToastText ==
  IF Includes(errorMessage, "PERMISSION_DENIED") THEN MsgBlockedGuidance
  ELSE OrElse(errorMessage, << "An unexpected error occurred." >>)

isBusy == status \in {"TRANSCRIBING", "GENERATING"}

\* the message the catch of startLiveRecording gives the error
liveErrorMessage(err) ==
  IF err.name \in DenialNames THEN MsgPermissionDenied
  ELSE IF err.name \in NotFoundNames THEN MsgNoMicrophone
  ELSE OrElse(err.message, MsgUnknownMic)

\* catch of startLiveRecording: classify, dispatch 'app-error' (handleAppError
\* runs inside dispatchEvent), setStatus(ERROR)
liveCatch(err, perm) ==
  /\ permissionState' = IF err.name \in DenialNames THEN "denied" ELSE perm
  /\ errorMessage' = liveErrorMessage(err)
  /\ status' = "ERROR"

\* Record Bio / Retry button (the button is Stop while RECORDING, disabled while busy)
startLiveRecording ==
  /\ status \in {"IDLE", "ERROR"}
  /\ IF context = "insecure"
       THEN /\ liveCatch([name |-> "Error", message |-> MsgInsecure], permissionState)
            /\ UNCHANGED << pending, gumCalls >>
       ELSE IF context = "nomedia"
         THEN /\ liveCatch([name |-> "Error", message |-> MsgUnsupported], permissionState)
              /\ UNCHANGED << pending, gumCalls >>
         ELSE /\ gumCalls < MaxAcquire
              /\ Issued < MaxRecorders
              /\ status' = "IDLE"
              /\ gumCalls' = gumCalls + 1
              /\ pending' = [pending EXCEPT !["live"] = @ + 1]
              /\ UNCHANGED << permissionState, errorMessage >>
  /\ UNCHANGED << supported, negVars, streams, recorders, blobs, timers, tpVars, scrollVars, pageVars,
                  bio, script, hrMediaRecorderRef, hrChunksRef, svcVars >>

\* getUserMedia resolves for startLiveRecording: the recorder is constructed
\* (the constructor throws NotSupportedError for a type that is not supported)
micResolved ==
  /\ pending["live"] > 0
  /\ pending' = [pending EXCEPT !["live"] = @ - 1]
  /\ streams' = Append(streams, NewStream("A"))
  /\ LET mimeType == getSupportedAudioMimeType(supported)
         s == Len(streams) + 1
         r == Len(recorders) + 1
     IN IF mimeType \notin supported
          THEN /\ liveCatch([name |-> "NotSupportedError",
                             message |-> << "Failed to construct 'MediaRecorder'" >>],
                            "granted")
               /\ UNCHANGED << recorders, hrMediaRecorderRef, hrChunksRef >>
          ELSE /\ permissionState' = "granted"
               /\ recorders' = Append(recorders, NewRecorder("A", s, mimeType))
               /\ hrMediaRecorderRef' = r
               /\ hrChunksRef' = << >>
               /\ status' = "RECORDING"
               /\ UNCHANGED errorMessage
  /\ UNCHANGED << supported, negVars, gumCalls, blobs, timers, tpVars, scrollVars, pageVars,
                  bio, script, svcVars >>

\* getUserMedia rejects for startLiveRecording
micRejected(err) ==
  /\ pending["live"] > 0
  /\ pending' = [pending EXCEPT !["live"] = @ - 1]
  /\ liveCatch(err, permissionState)
  /\ UNCHANGED << supported, negVars, streams, recorders, gumCalls, blobs, timers, tpVars, scrollVars, pageVars,
                  bio, script, hrMediaRecorderRef, hrChunksRef, svcVars >>

\* stopLiveRecording without its check of recorder.state
stopLiveRecording_Unguarded ==
  /\ status = "RECORDING"
  /\ hrMediaRecorderRef # NULL
  /\ recorders' = StopRecorder(recorders, hrMediaRecorderRef)
  /\ UNCHANGED << supported, negVars, streams, pending, gumCalls, blobs, timers, tpVars, scrollVars, pageVars,
                  audioVars >>

\* Stop Recording button (the button's handler while status is RECORDING)
stopLiveRecording ==
  /\ status = "RECORDING"
  /\ recorders' = IF IsRecordingState(hrMediaRecorderRef)
                    THEN StopRecorder(recorders, hrMediaRecorderRef)
                    ELSE recorders
  /\ UNCHANGED << supported, negVars, streams, pending, gumCalls, blobs, timers, tpVars, scrollVars, pageVars,
                  audioVars >>

\* recorder.ondataavailable of a HybridRecorder recorder while it records
hrDataAvailable(r, empty) ==
  /\ recorders[r].owner = "A"
  /\ recorders[r].state = "recording"
  /\ ~empty => recorders[r].delivered < MaxChunks
  /\ recorders' = AfterDelivery(r, empty, FALSE)
  /\ hrChunksRef' = PushChunk(hrChunksRef, r, empty)
  /\ UNCHANGED << supported, negVars, streams, pending, gumCalls, blobs, timers, tpVars, scrollVars, pageVars,
                  appVars, permissionState, hrMediaRecorderRef, svcVars >>

\* the task MediaRecorder.stop() queued, for a HybridRecorder recorder: the last
\* dataavailable, then onstop: Blob of the buffer, FileReader started, the
\* recorder's stream released
hrStopTask(r, empty) ==
  /\ recorders[r].owner = "A"
  /\ recorders[r].stopTask
  /\ ~empty => recorders[r].delivered < MaxChunks
  /\ recorders' = AfterDelivery(r, empty, TRUE)
  /\ hrChunksRef' = PushChunk(hrChunksRef, r, empty)
  /\ blobs' = Append(blobs, [content |-> hrChunksRef', type |-> recorders[r].mimeType,
                             rec |-> r])
  /\ readers' = readers \cup {Len(blobs) + 1}
  /\ streams' = StopTracks(streams, recorders[r].stream)
  /\ UNCHANGED << supported, negVars, pending, gumCalls, timers, tpVars, scrollVars, pageVars, appVars,
                  permissionState, hrMediaRecorderRef,
                  context, query, handoffs, pendingTranscribe, pendingGenerate >>

\* reader.onloadend: onAudioReady(base64, mimeType), that is handleAudioReady up
\* to its await
readerLoadEnd(b) ==
  /\ b \in readers
  /\ readers' = readers \ {b}
  /\ handoffs' = Append(handoffs, [blob |-> b, mimeType |-> recorders[blobs[b].rec].mimeType])
  /\ errorMessage' = NoMessage
  /\ status' = "TRANSCRIBING"
  /\ pendingTranscribe' = pendingTranscribe + 1
  /\ UNCHANGED << envVars, tpVars, scrollVars, pageVars, bio, script, hrVars, context, query,
                  pendingGenerate >>

\* a handleAudioReady that stores the transcript in place of the bio
transcribeResolved_Replace(text) ==
  /\ pendingTranscribe > 0
  /\ pendingTranscribe' = pendingTranscribe - 1
  /\ bio' = text
  /\ status' = "IDLE"
  /\ UNCHANGED << envVars, tpVars, scrollVars, pageVars, errorMessage, script, hrVars,
                  context, query, readers, handoffs, pendingGenerate >>

\* transcribeAudio resolves
transcribeResolved(text) ==
  /\ pendingTranscribe > 0
  /\ pendingTranscribe' = pendingTranscribe - 1
  /\ bio' = IF bio # << >> THEN bio \o << "\n\n" >> \o text ELSE text
  /\ status' = "IDLE"
  /\ UNCHANGED << envVars, tpVars, scrollVars, pageVars, errorMessage, script, hrVars, context, query,
                  readers, handoffs, pendingGenerate >>

\* transcribeAudio rejects: the catch of handleAudioReady
transcribeRejected(message) ==
  /\ pendingTranscribe > 0
  /\ pendingTranscribe' = pendingTranscribe - 1
  /\ errorMessage' = OrElse(TranscriptionFailed(message), << "Failed to transcribe audio." >>)
  /\ status' = "ERROR"
  /\ UNCHANGED << envVars, tpVars, scrollVars, pageVars, bio, script, hrVars, context, query,
                  readers, handoffs, pendingGenerate >>

\* Generate Script button and the quick refinements
handleGenerateScript ==
  /\ ~isBusy
  /\ HasText(bio)
  /\ pendingGenerate < MaxGenerate
  /\ errorMessage' = NoMessage
  /\ status' = "GENERATING"
  /\ pendingGenerate' = pendingGenerate + 1
  /\ UNCHANGED << envVars, tpVars, scrollVars, pageVars, bio, script, hrVars, context, query,
                  readers, handoffs, pendingTranscribe >>

\* generateTeacherScript resolves
generateResolved(text) ==
  /\ pendingGenerate > 0
  /\ pendingGenerate' = pendingGenerate - 1
  /\ script' = text
  /\ status' = "IDLE"
  /\ UNCHANGED << envVars, tpVars, scrollVars, pageVars, errorMessage, bio, hrVars, context, query,
                  readers, handoffs, pendingTranscribe >>

\* generateTeacherScript rejects: the catch of handleGenerateScript
generateRejected(message) ==
  /\ pendingGenerate > 0
  /\ pendingGenerate' = pendingGenerate - 1
  /\ errorMessage' = OrElse(GenerationFailed(message), << "Failed to generate script." >>)
  /\ status' = "ERROR"
  /\ UNCHANGED << envVars, tpVars, scrollVars, pageVars, bio, script, hrVars, context, query,
                  readers, handoffs, pendingTranscribe >>

\* Dismiss button of the error toast
dismiss ==
  /\ status = "ERROR"
  /\ status' = "IDLE"
  /\ errorMessage' = NoMessage
  /\ UNCHANGED << envVars, tpVars, scrollVars, pageVars, bio, script, hrVars, svcVars >>

\* the bio textarea (disabled while busy)
editBio(value) ==
  /\ ~isBusy
  /\ bio' = value
  /\ UNCHANGED << envVars, tpVars, scrollVars, pageVars, status, errorMessage, script, hrVars, svcVars >>

\* navigator.permissions.query resolves: the browser's state is copied and
\* onchange subscribed
queryResolved(p) ==
  /\ query = "pending"
  /\ query' = "subscribed"
  /\ permissionState' = p
  /\ UNCHANGED << envVars, tpVars, scrollVars, pageVars, appVars, hrMediaRecorderRef, hrChunksRef,
                  context, readers, handoffs, pendingTranscribe, pendingGenerate >>

\* navigator.permissions.query rejects: logged only
queryRejected ==
  /\ query = "pending"
  /\ query' = "failed"
  /\ UNCHANGED << envVars, tpVars, scrollVars, pageVars, appVars, hrVars, context, readers,
                  handoffs, pendingTranscribe, pendingGenerate >>

\* permissionStatus.onchange: the browser's permission moved to p
permissionChanged(p) ==
  /\ query = "subscribed"
  /\ permissionState' = p
  /\ UNCHANGED << envVars, tpVars, scrollVars, pageVars, appVars, hrMediaRecorderRef, hrChunksRef,
                  svcVars >>

NextA ==
  \/ startLiveRecording
  \/ micResolved
  \/ \E err \in MediaErrors : micRejected(err)
  \/ stopLiveRecording
  \/ \E r \in 1..Len(recorders), e \in BOOLEAN : hrDataAvailable(r, e)
  \/ \E r \in 1..Len(recorders), e \in BOOLEAN : hrStopTask(r, e)
  \/ \E b \in readers : readerLoadEnd(b)
  \/ \E text \in ServiceTexts : transcribeResolved(text)
  \/ \E m \in ServiceErrors : transcribeRejected(m)
  \/ handleGenerateScript
  \/ \E text \in ServiceTexts : generateResolved(text)
  \/ \E m \in ServiceErrors : generateRejected(m)
  \/ dismiss
  \/ \E v \in {<< "typed" >>} : editBio(v)
  \/ \E p \in PermissionStates : queryResolved(p)
  \/ queryRejected
  \/ \E p \in PermissionStates : permissionChanged(p)

SpecA == InitA /\ [][NextA]_vars

\* the life of the audio recorder on its own: start, settle, stop, hand off,
\* transcribe
NextR ==
  \/ startLiveRecording
  \/ micResolved
  \/ \E err \in MediaErrors : micRejected(err)
  \/ stopLiveRecording
  \/ \E r \in 1..Len(recorders), e \in BOOLEAN : hrDataAvailable(r, e)
  \/ \E r \in 1..Len(recorders), e \in BOOLEAN : hrStopTask(r, e)
  \/ \E b \in readers : readerLoadEnd(b)
  \/ \E text \in ServiceTexts : transcribeResolved(text)
  \/ \E m \in ServiceErrors : transcribeRejected(m)
  \/ dismiss

SpecR == InitA /\ [][NextR]_vars

\* the event loop runs every task a MediaRecorder.stop() queued
SpecRFair ==
  /\ SpecR
  /\ \A r \in 1..MaxRecorders :
       WF_vars(r <= Len(recorders) /\ \E e \in BOOLEAN : hrStopTask(r, e))

\* besides the stop tasks, every FileReader finishes its read and every
\* transcribeAudio promise settles
SpecRLive ==
  /\ SpecRFair
  /\ WF_vars(\E b \in readers : readerLoadEnd(b))
  /\ WF_vars(\/ \E text \in ServiceTexts : transcribeResolved(text)
             \/ \E m \in ServiceErrors : transcribeRejected(m))

\* --------------------------------------------- the negotiators on their own
MaxCalls == 2        \* calls of each negotiator in one run

\* any capability set the runtime may report
InitN ==
  /\ supported \in SUBSET AllTypes
  /\ InitBrowser /\ InitTeleprompter /\ InitApp
  /\ mounted = FALSE
  /\ context = "ok"
  /\ query = "unsupported"

callGetSupportedMimeType ==
  /\ Len(videoChoices) < MaxCalls
  /\ videoChoices' = Append(videoChoices, getSupportedMimeType(supported))
  /\ UNCHANGED << supported, streams, recorders, pending, gumCalls, blobs, timers,
                  audioChoices, tpVars, scrollVars, pageVars, audioVars >>

callGetSupportedAudioMimeType ==
  /\ Len(audioChoices) < MaxCalls
  /\ audioChoices' = Append(audioChoices, getSupportedAudioMimeType(supported))
  /\ UNCHANGED << supported, streams, recorders, pending, gumCalls, blobs, timers,
                  videoChoices, tpVars, scrollVars, pageVars, audioVars >>

NextN ==
  \/ callGetSupportedMimeType
  \/ callGetSupportedAudioMimeType

SpecN == InitN /\ [][NextN]_vars

\* ================================================================= claims
\* the chunks recorder r has delivered, in arrival order
Delivered(r) == [k \in 1..recorders[r].delivered |-> << r, k >>]

\* C1: every artifact built in a recorder's stop callback holds exactly the
\* chunks that recorder delivered, in arrival order
C1_ArtifactIsOwnChunksInOrder ==
  \A b \in 1..Len(blobs) : blobs[b].content = Delivered(blobs[b].rec)

\* C2: at most one camera stream of the Teleprompter is live at any time
C2_AtMostOneLiveStream == Cardinality(LiveStreams("T")) <= 1

\* C3: per controller at most one recorder is recording at any time
C3_AtMostOneRecording ==
  /\ Cardinality(RecordingRecorders("T")) <= 1
  /\ Cardinality(RecordingRecorders("A")) <= 1

\* C4: an existing video artifact is cleared only by DISCARD; a new session
\* replaces it when it finalizes and never clears it before
C4_ArtifactKeptUntilFinalized ==
  [][(recordedVideoUrl # NULL /\ recordedVideoUrl' = NULL) => discard]_vars

C5_VideoStopOnlyWhileRecording == isRecording => IsRecordingState(mediaRecorderRef)

\* C6: a request for the camera made while a stream is held (Show Camera, or
\* START RECORDING) keeps the same handle, calls getUserMedia no second time
\* and hands the held stream to the recorder it starts
C6_AcquireReusesStream ==
  [][(streamRef # NULL /\ ((toggleCameraVisibility /\ ~showCamera) \/ startRecording))
       => /\ streamRef' = streamRef /\ gumCalls' = gumCalls
          /\ streams' = streams /\ pending' = pending
          /\ Len(recorders') > Len(recorders)
               => recorders'[Len(recorders')].stream = streamRef]_vars

\* two recording sessions ran on the one stream a single getUserMedia returned
C6_Witness ==
  /\ gumCalls = 1
  /\ streamRef = 1
  /\ streams[1].live
  /\ Len(recorders) = 2
  /\ recorders[1].stream = 1
  /\ recorders[2].stream = 1

\* C7: once the Teleprompter is unmounted no camera stream is live and the
\* handle is cleared
C7_ReleasedOnUnmount == ~mounted => (LiveStreams("T") = {} /\ streamRef = NULL)

\* C8: a getUserMedia rejection that is a permission denial leaves the
\* component's permission state denied and the shared status ERROR with the
\* permission-related flag, on the audio path and on the video path
C8_DenialRaisesSharedError ==
  [][/\ (\E err \in MediaErrors : err.name \in DenialNames /\ micRejected(err))
          => (permissionState' = "denied" /\ PermissionRelated')
     /\ (\E c \in TpCallers, err \in MediaErrors :
            err.name \in DenialNames /\ getUserMediaRejected(c, err))
          => (permissionDenied' /\ PermissionRelated')]_vars

\* the audio path of C8 on its own
C8_AudioDenialRaisesSharedError ==
  [][(\E err \in MediaErrors : err.name \in DenialNames /\ micRejected(err))
       => (permissionState' = "denied" /\ PermissionRelated')]_vars

\* text occurs in message as a run of consecutive pieces
Contains(message, text) ==
  \E i \in 0..(Len(message) - Len(text)) : SubSeq(message, i + 1, i + Len(text)) = text

\* C9: a rejection of transcribeAudio or generateTeacherScript gives status
\* ERROR, the toast shows the service's message and never the blocked-device
\* guidance
C9_ServiceFailureNotReclassified ==
  [][\A m \in ServiceErrors :
       (transcribeRejected(m) \/ generateRejected(m))
         => (status' = "ERROR" /\ ~PermissionRelated' /\ Contains(ToastText', m))]_vars

\* C10: each negotiator returns the first entry of its preference list that the
\* runtime supports, 'audio/wav' (audio) or '' (video) when none is, and every
\* call under one capability set returns the same choice
IsFirstOf(types, choice) ==
  \E i \in 1..Len(types) :
    /\ types[i] = choice
    /\ choice \in supported
    /\ \A j \in 1..(i - 1) : types[j] \notin supported

NoneOf(types) == \A i \in 1..Len(types) : types[i] \notin supported

C10_NegotiationIsFirstSupported ==
  /\ \A k \in 1..Len(videoChoices) :
       IF NoneOf(VideoTypes) THEN videoChoices[k] = ""
       ELSE IsFirstOf(VideoTypes, videoChoices[k])
  /\ \A k \in 1..Len(audioChoices) :
       IF NoneOf(AudioTypes) THEN audioChoices[k] = "audio/wav"
       ELSE IsFirstOf(AudioTypes, audioChoices[k])
  /\ \A k, l \in 1..Len(videoChoices) : videoChoices[k] = videoChoices[l]
  /\ \A k, l \in 1..Len(audioChoices) : audioChoices[k] = audioChoices[l]

\* both negotiators were called twice: video skipped unsupported entries and
\* passed over a later supported one, audio fell back
C10_Witness ==
  /\ supported = {"video/webm", "video/quicktime"}
  /\ Len(videoChoices) = 2
  /\ videoChoices[2] = "video/webm"
  /\ Len(audioChoices) = 2
  /\ audioChoices[2] = "audio/wav"

\* sizes in bytes of the chunks a recorder delivers, by their place (e.data.size)
ChunkSizes == << 10, 5, 20 >>

ChunkSize(chunk) == ChunkSizes[((chunk[2] - 1) % Len(ChunkSizes)) + 1]

\* blob.size of new Blob(parts): the sizes of the parts added up
RECURSIVE ByteLength(_)
ByteLength(parts) ==
  IF parts = << >> THEN 0 ELSE ChunkSize(Head(parts)) + ByteLength(Tail(parts))

\* the mime type the controller of recorder r negotiates
Negotiated(r) ==
  IF recorders[r].owner = "T" THEN getSupportedMimeType(supported)
  ELSE getSupportedAudioMimeType(supported)

\* C11: every artifact carries the mime type negotiated for its session, its byte
\* length is the sum of the sizes of the chunks its session delivered, and the
\* mime type handed to onAudioReady is the artifact's
C11_ArtifactTypeAndLength ==
  /\ \A b \in 1..Len(blobs) :
       /\ blobs[b].type = Negotiated(blobs[b].rec)
       /\ ByteLength(blobs[b].content) = ByteLength(Delivered(blobs[b].rec))
  /\ \A h \in 1..Len(handoffs) : handoffs[h].mimeType = blobs[handoffs[h].blob].type

\* the type and hand-over part of C11 on its own
C11_ArtifactType ==
  /\ \A b \in 1..Len(blobs) : blobs[b].type = Negotiated(blobs[b].rec)
  /\ \A h \in 1..Len(handoffs) : handoffs[h].mimeType = blobs[handoffs[h].blob].type

\* C12: the scroll speed is always within [10, 200]; a decrease gives
\* max(10, speed - 10) and an increase gives min(200, speed + 10), so a step
\* past either end lands on the end
C12_SpeedClamped ==
  /\ [](speed >= 10 /\ speed <= 200)
  /\ [][/\ speedDown => speed' = (IF speed - 10 < 10 THEN 10 ELSE speed - 10)
        /\ speedUp => speed' = (IF speed + 10 > 200 THEN 200 ELSE speed + 10)]_vars

\* the speed was raised from 40 to the upper end while frames were running
C12_Witness == speed = 200 /\ lastTimeRef # NULL

\* the advance a running stretch at the present speed owes for the time between
\* the frame that opened it and the last frame
OwedAdvance == (speed * (lastTimeRef - leg.time)) \div 10

C14_PauseResumeKeepsPosition ==
  leg.kind = "resumed" =>
    /\ isScrolling
    /\ scrollPosRef = leg.pos
    /\ ~leg.idle => lastTimeRef = leg.time

\* paused and resumed at a position the scroll had advanced to
C14_Witness == leg.kind = "resumed" /\ leg.pos > 0 /\ leg.time # NULL

\* recorder r has run its stop callback
Finalized(r) == recorders[r].state = "inactive" /\ ~recorders[r].stopTask

\* C15: an artifact exists only for a recorder whose stop callback has run, and
\* a session stopped before any of its chunks arrived gives an artifact built
\* from zero chunks
C15_EmptySessionEmptyArtifact ==
  \A b \in 1..Len(blobs) :
    /\ Finalized(blobs[b].rec)
    /\ recorders[blobs[b].rec].delivered = 0 => blobs[b].content = << >>

\* the first half of C15 on its own: no artifact before the stop callback
C15_NoArtifactBeforeStopCallback ==
  \A b \in 1..Len(blobs) : Finalized(blobs[b].rec)

\* the progress half of C15: a stopped recorder's artifact is emitted, whatever
\* the user does meanwhile
C15_StoppedLeadsToArtifact ==
  \A r \in 1..MaxRecorders :
    (r <= Len(recorders) /\ recorders[r].stopTask)
      ~> (\E b \in 1..Len(blobs) : blobs[b].rec = r)

\* the object URLs in the document's blob URL store: one per video artifact
\* (URL.createObjectURL in onstop), and none is ever taken out, the component
\* having no URL.revokeObjectURL call
ObjectUrls == { b \in 1..Len(blobs) : recorders[blobs[b].rec].owner = "T" }

\* C16: after DISCARD and after a recording start no object URL is left in the
\* store except the current artifact's
C16_ArtifactUrlReleased ==
  [][(discard \/ startRecording \/ getUserMediaResolved("record"))
       => ObjectUrls' \subseteq {recordedVideoUrl'}]_vars

\* the file extensions of the container a video mime type names
ContainerExtensions(type) ==
  LET container == MimePieces(type)[2]
  IN CASE container = "mp4" -> {"mp4"}
       [] container = "webm" -> {"webm"}
       [] container = "quicktime" -> {"mov", "qt"}

\* the name of the last download has the form
\* teacher-intro-landscape-<timestamp>.<extension>
WellFormedName ==
  /\ Len(download.name) = 4
  /\ download.name[1] = "teacher-intro-landscape-"
  /\ download.name[2] \in Timestamps
  /\ download.name[3] = "."

\* C17: a saved video is named teacher-intro-landscape-<timestamp>.<extension>,
\* the extension being one of the container of the artifact's mime type
C17_ExtensionIsContainer ==
  download # NoDownload =>
    /\ WellFormedName
    /\ download.name[4] \in ContainerExtensions(blobs[download.href].type)

\* C17 for the mp4 and webm entries of the preference list only
C17_Mp4AndWebmNamed ==
  (download # NoDownload /\ "video/quicktime" \notin supported) =>
    /\ WellFormedName
    /\ download.name[4] \in ContainerExtensions(blobs[download.href].type)

\* C18: the elapsed-time counter changes only by a recording start, which sets
\* it to 0, and by the tick of the one timer of the session that is recording,
\* which adds 1; after stopRecording and after unmount no tick changes it
C18_CounterTicksOnlyWhileRecording ==
  [][recordingTime' # recordingTime =>
       \/ isRecording' /\ Len(recorders') > Len(recorders) /\ recordingTime' = 0
       \/ /\ isRecording /\ mounted /\ Cardinality(timers) = 1
          /\ recordingTime' = recordingTime + 1]_vars

\* the part of C18 that holds: a recording start resets the counter and every
\* other change is a tick that adds 1 while the component is mounted
C18_CounterResetThenIncrements ==
  [][recordingTime' # recordingTime =>
       \/ isRecording' /\ Len(recorders') > Len(recorders) /\ recordingTime' = 0
       \/ mounted /\ timers # {} /\ recordingTime' = recordingTime + 1]_vars

\* C19: a start that creates a recorder puts the scroll position (engine and
\* panel) at zero and sets the running flag; a STOP on a recording session
\* clears the running flag and leaves the position where it is
C19_StartResetsStopFreezes ==
  [][/\ Len(recorders') > Len(recorders)
          => scrollPosRef' = 0 /\ scrollTop' = 0 /\ isScrolling'
     /\ (stopRecording /\ IsRecordingState(mediaRecorderRef))
          => ~isScrolling' /\ scrollPosRef' = scrollPosRef /\ scrollTop' = scrollTop]_vars

\* the one session was started, scrolled at speed 40 for two tenths of a second
\* and was stopped there
C19_Witness ==
  /\ Len(recorders) = 1 /\ recorders[1].state = "inactive"
  /\ ~isRecording /\ ~isScrolling
  /\ scrollPosRef = 8 /\ scrollTop = 8

\* the negotiator returns the sentinel: no entry of the video list is supported
NoVideoCodec == getSupportedMimeType(supported) = ""

\* C20: without a supported video codec no recorder is ever created, the
\* recording flag stays false, no timer is started and the counter stays 0; a
\* start leaves the scroll flag and position alone and, once it has the stream,
\* ends with the alert "Recording not supported."
C20_NoCodecNoSession ==
  /\ [](NoVideoCodec =>
          /\ recorders = << >> /\ mediaRecorderRef = NULL
          /\ ~isRecording
          /\ timers = {} /\ timerIntervalRef = NULL /\ recordingTime = 0)
  /\ [][(NoVideoCodec /\ (startRecording \/ getUserMediaResolved("record")))
          => /\ isScrolling' = isScrolling /\ scrollPosRef' = scrollPosRef
             /\ (streamRef' # NULL /\ pending'["record"] <= pending["record"])
                  => alertShown' = << "Recording not supported." >>]_vars

\* with nothing supported a start got its stream and stopped at the alert
C20_Witness ==
  /\ NoVideoCodec
  /\ streamRef # NULL
  /\ alertShown = << "Recording not supported." >>

\* C21: of the ways an acquisition ends, only a permission denial leaves the
\* permission state denied, every other failure (no device, insecure context,
\* no capture API, anything else) leaves it as it was, and a success leaves
\* it granted; on the audio path (permissionState) and on the video path
\* (permissionDenied, granted being "not denied")
C21_PermissionFollowsAcquisition ==
  [][/\ \A err \in MediaErrors :
          micRejected(err)
            => permissionState' = IF err.name \in DenialNames THEN "denied"
                                  ELSE permissionState
     /\ (startLiveRecording /\ context # "ok") => permissionState' = permissionState
     /\ micResolved => permissionState' = "granted"
     /\ \A c \in TpCallers, err \in MediaErrors :
          getUserMediaRejected(c, err)
            => permissionDenied' = IF err.name \in DenialNames THEN TRUE
                                   ELSE permissionDenied
     /\ \A c \in TpCallers : getUserMediaResolved(c) => ~permissionDenied']_vars

\* the audio path of C21 on its own
C21_AudioPermissionFollowsAcquisition ==
  [][/\ \A err \in MediaErrors :
          micRejected(err)
            => permissionState' = IF err.name \in DenialNames THEN "denied"
                                  ELSE permissionState
     /\ (startLiveRecording /\ context # "ok") => permissionState' = permissionState
     /\ micResolved => permissionState' = "granted"]_vars

\* the failures of the video path: the catch of startCamera raises the flag
\* for a denial only
C21_VideoFailureClassified ==
  [][\A c \in TpCallers, err \in MediaErrors :
       getUserMediaRejected(c, err)
         => permissionDenied' = IF err.name \in DenialNames THEN TRUE
                                ELSE permissionDenied]_vars

\* the state a denied acquisition leaves behind: permission state denied, the
\* shared status ERROR with the denial's message (no dismissal, no retry since)
DeniedByFailure ==
  /\ permissionState = "denied"
  /\ status = "ERROR"
  /\ errorMessage = MsgPermissionDenied

\* C22: after an acquisition failed with a permission denial the audio
\* permission state stays denied until an acquisition the user started
\* succeeds; neither the resolution of the permission query issued on mount
\* nor a change notification moves it away
C22_DeniedUntilRetry ==
  [][(DeniedByFailure /\ permissionState' # "denied") => micResolved]_vars

\* the only steps that leave denied: a successful acquisition, and the two
\* callbacks of the permission query
C22_DeniedLeftByQueryOrSuccess ==
  [][(permissionState = "denied" /\ permissionState' # "denied")
       => \/ micResolved
          \/ \E p \in PermissionStates : queryResolved(p) \/ permissionChanged(p)]_vars

\* the steps in which an acquisition or a session start of the audio path fails
AudioFailure ==
  \/ \E err \in MediaErrors : micRejected(err)
  \/ startLiveRecording /\ context # "ok"
  \/ micResolved /\ getSupportedAudioMimeType(supported) \notin supported

\* the steps in which an acquisition or a session start of the video path fails
VideoFailure ==
  \/ \E c \in TpCallers, err \in MediaErrors : getUserMediaRejected(c, err)
  \/ startRecording /\ streamRef # NULL /\ NoVideoCodec
  \/ getUserMediaResolved("record") /\ NoVideoCodec

\* C23: every failure of an acquisition or of a session start (rejection,
\* insecure context, no capture API, recorder construction, no codec) moves
\* the shared status to ERROR with a message, leaves no session of its
\* component recording, and issues no new getUserMedia call
C23_FailureSurfacedOnce ==
  [][/\ AudioFailure
          => /\ status' = "ERROR" /\ errorMessage' # NoMessage
             /\ RecordingRecorders("A")' = {}
             /\ gumCalls' = gumCalls
     /\ VideoFailure
          => /\ status' = "ERROR" /\ errorMessage' # NoMessage
             /\ RecordingRecorders("T")' = {} /\ ~isRecording'
             /\ gumCalls' = gumCalls]_vars

\* the audio path reports every failure to the shared status and does not retry
C23_AudioFailureReported ==
  [][AudioFailure
       => /\ status' = "ERROR" /\ errorMessage' # NoMessage
          /\ gumCalls' = gumCalls]_vars

\* the audio path leaves nothing recording behind a failure
C23_AudioFailureStopsSession ==
  [][AudioFailure => RecordingRecorders("A")' = {}]_vars

\* the video path shows every failure on its own page (overlay or alert),
\* does not retry, and starts no session
C23_VideoFailureShownLocally ==
  [][VideoFailure
       => /\ permissionDenied' \/ alertShown' # NoMessage
          /\ gumCalls' = gumCalls
          /\ Len(recorders') = Len(recorders)]_vars

\* C24: a manual scroll while the scroll is not running sets the engine's
\* position to the offset the panel was moved to, and one made while it is
\* running leaves the position alone; nothing else but a frame of the running
\* engine moves the position, and that frame advances from where it stands,
\* so the first frame after a resume continues from the manual offset
C24_ManualScrollSetsPosition ==
  [][/\ \A offset \in ManualOffsets :
          onScroll(offset)
            => scrollPosRef' = IF ~isScrolling THEN offset ELSE scrollPosRef
     /\ scrollPosRef' # scrollPosRef
          => \/ \E offset \in ManualOffsets : onScroll(offset) /\ ~isScrolling
             \/ \E time \in 1..MaxClock :
                  /\ animateScroll(time) /\ isScrolling
                  /\ scrollPosRef' = scrollPosRef + moveBy(time)]_vars

\* the panel was moved to 12 while paused, the scroll resumed, and the first
\* frame of the new stretch (from time 1 to time 2 at speed 40) stands at 16
C24_Witness ==
  /\ isScrolling
  /\ speed = 40
  /\ lastTimeRef = 2
  /\ leg = [kind |-> "run", time |-> 2, pos |-> 16, shown |-> TRUE, idle |-> FALSE]
  /\ scrollPosRef = 16
  /\ scrollTop = 16

\* C25: a frame that finds the scroll paused moves nothing, notes its
\* timestamp and leaves the next frame armed; the first frame after a resume
\* advances from the position held at the pause by speed times the time since
\* the frame before it, however long the pause was: less than speed times
\* the time since the pause began, when frames passed during the pause
C25_PausedFramesAddNoAdvance ==
  [][\A time \in 1..MaxClock :
       /\ (animateScroll(time) /\ ~isScrolling)
            => /\ scrollPosRef' = scrollPosRef /\ scrollTop' = scrollTop
               /\ lastTimeRef' = time
               /\ mounted' /\ \A later \in (time + 1)..MaxClock : later > lastTimeRef'
       /\ (animateScroll(time) /\ isScrolling /\ ~playbackMode /\ leg.kind = "resumed"
             /\ lastTimeRef # NULL)
            => /\ scrollPosRef' = leg.pos + moveBy(time)
               /\ leg.idle => scrollPosRef' < leg.pos + (speed * (time - leg.time)) \div 10]_vars

\* paused at time 1, a frame passed at time 2 while paused, the scroll was
\* resumed and the next frame is still to come
C25_Witness ==
  /\ isScrolling
  /\ leg.kind = "resumed" /\ leg.idle
  /\ leg.time = 1
  /\ lastTimeRef = 2
  /\ scrollPosRef = leg.pos

\* the service returned no text: response.text missing, empty or white space
NoText == << >>

\* C26: a service call that comes back without text does not leave the caller
\* in the IDLE state a non-empty result leaves it in, and a service error
\* moves the status to ERROR with a message and starts no new call
C26_EmptyOutputDistinguished ==
  [][/\ (transcribeResolved(NoText) \/ generateResolved(NoText)) => status' # "IDLE"
     /\ \A m \in ServiceErrors :
          (transcribeRejected(m) \/ generateRejected(m))
            => /\ status' = "ERROR" /\ errorMessage' # NoMessage
               /\ pendingTranscribe' + pendingGenerate'
                    < pendingTranscribe + pendingGenerate]_vars

\* the error half of C26: a rejection is reported and nothing is retried
C26_ServiceErrorReportedNoRetry ==
  [][\A m \in ServiceErrors :
       (transcribeRejected(m) \/ generateRejected(m))
         => /\ status' = "ERROR" /\ errorMessage' # NoMessage
            /\ pendingTranscribe' + pendingGenerate'
                 < pendingTranscribe + pendingGenerate]_vars

\* C27: every chunk in a video artifact was delivered by the recorder whose
\* stop callback built the artifact, also when a new session starts between a
\* stop and the stopped recorder's last data and stop callbacks
C27_ArtifactHasOnlyOwnChunks ==
  \A b \in 1..Len(blobs) :
    recorders[blobs[b].rec].owner = "T"
      => \A i \in 1..Len(blobs[b].content) : blobs[b].content[i][1] = blobs[b].rec

\* C28: while a MediaRecorder of the HybridRecorder is recording the shared
\* status is RECORDING (the button is an enabled Stop), whatever else the
\* user does meanwhile
C28_RecordingImpliesStatus ==
  RecordingRecorders("A") # {} => status = "RECORDING"

\* the status RECORDING is entered only by a recorder that has just started
C28_StatusEnteredWithRecorder ==
  [][(status # "RECORDING" /\ status' = "RECORDING")
       => micResolved /\ IsRecordingState(hrMediaRecorderRef)']_vars

\* stream s came from startLiveRecording and has a track that is not stopped
AudioStreamLive(s) ==
  s <= Len(streams) /\ streams[s].owner = "A" /\ streams[s].live

\* C29: whenever the recorder the HybridRecorder holds is not recording (the
\* start failed, or the user stopped it), every microphone stream that is
\* still live is eventually released
C29_StreamEventuallyReleased ==
  \A s \in 1..MaxAcquire :
    (AudioStreamLive(s) /\ ~IsRecordingState(hrMediaRecorderRef))
      ~> ~AudioStreamLive(s)

\* every live microphone stream belongs to a recorder that records or whose
\* stop task is queued
C29_LiveStreamHasRecorder ==
  \A s \in 1..Len(streams) :
    AudioStreamLive(s)
      => \E r \in 1..Len(recorders) :
           /\ recorders[r].stream = s
           /\ recorders[r].state = "recording" \/ recorders[r].stopTask

\* a live microphone stream no recorder was built on stays live in every step
\* the program can take: nothing but a recorder's stop callback stops tracks
C29_StreamWithoutRecorderStaysLive ==
  [][\A s \in 1..Len(streams) :
       (AudioStreamLive(s) /\ \A r \in 1..Len(recorders) : recorders[r].stream # s)
         => streams'[s].live]_vars

\* the stop callback releases the stream its recorder was built on
C29_StopCallbackReleasesStream ==
  [][\A r \in 1..Len(recorders), e \in BOOLEAN :
       hrStopTask(r, e) => ~streams'[recorders[r].stream].live]_vars

\* C30: the stream a recording video recorder was built on is live, and Hide
\* Camera pressed during a recording hides the preview only: no track is
\* stopped and the handle is kept
C30_RecordingStreamNotReleased ==
  /\ [](\A r \in RecordingRecorders("T") : streams[recorders[r].stream].live)
  /\ [][(toggleCameraVisibility /\ showCamera /\ isRecording)
          => /\ showCamera' = FALSE
             /\ streams' = streams /\ streamRef' = streamRef
             /\ recorders' = recorders]_vars

\* the camera was hidden during a recording: the recorder records on, on the
\* held stream, which is live
C30_Witness ==
  /\ isRecording /\ ~showCamera
  /\ IsRecordingState(mediaRecorderRef)
  /\ streamRef = recorders[mediaRecorderRef].stream
  /\ streams[streamRef].live
  /\ recorders[mediaRecorderRef].delivered > 0

\* C31: while the Teleprompter is mounted and holds a live stream, the camera
\* preview is shown or a video session is recording
C31_NoHiddenLiveCapture ==
  (mounted /\ streamRef # NULL /\ streams[streamRef].live)
    => showCamera \/ isRecording \/ RecordingRecorders("T") # {}

\* a held stream is hidden only by Hide Camera during a recording: whenever the
\* preview goes off and the handle is kept, the session was recording
C31_HiddenOnlyWhileRecording ==
  [][(showCamera /\ ~showCamera' /\ streamRef' # NULL)
       => toggleCameraVisibility /\ isRecording /\ streamRef' = streamRef]_vars

====
